---- MODULE Spec2Model ----
(***************************************************************************)
(* SAM / PAF record post-processing of q2-pinocchio and its predecessors   *)
(* (q2_minimap2, q2_long_reads_qc).                                        *)
(*                                                                         *)
(* A file is a sequence of lines, a line is the sequence of its            *)
(* tab-separated fields.  SAM: field 2 is the flag and field 6 the CIGAR,   *)
(* both sequences of characters; fields 12.. are the optional tags, a tag  *)
(* TAG:TYPE:VALUE being the triple of its ':'-separated parts, VALUE a     *)
(* sequence of characters.                                                 *)
(* A header line is a line whose first field starts with '@'.              *)
(* PAF: fields 10 and 11 are the match count and the block length.         *)
(*                                                                         *)
(* Python floats are modelled as exact fractions <<num, den>>, den > 0; on *)
(* the small integers used here a correctly rounded quotient compares with *)
(* a decimal literal exactly as the fractions do.                          *)
(***************************************************************************)
EXTENDS Integers, Sequences, FiniteSets, TLC

VARIABLES
    samFile,      \* content at input_sam_file
    samInput,     \* content of input_sam_file when the call started
    tmpFile,      \* content of the NamedTemporaryFile written by the pass
    samPos,       \* number of lines of samFile already consumed by the loop
    samPc,        \* "idle", "loop", "done", or the exception that ended the pass
    samRuns,      \* number of passes started on input_sam_file
    keep,         \* 2nd argument of process_sam_file
    minPerIdentity, \* 3rd argument of process_sam_file: None or a float
    userKeep,     \* keep parameter given to filter_*_end_reads
    entry,        \* which function the user called
    pafFile,      \* content of the PAF file
    pafInput,     \* content of the PAF file before any filter ran
    pafPc,        \* "start", "capped", "identity", "searched"
    maxaccepts,   \* maxaccepts parameter
    percIdentity, \* perc_identity parameter: None or a float
    outputNoHits, \* output_no_hits parameter
    pipePc,       \* position inside filter_reads / minimap2_search
    indexDatabase,  \* index_database is supplied
    referenceReads, \* reference_reads is supplied
    manifest,     \* per sample of query_reads: TRUE iff it has reverse reads
    sampleNo,     \* index in manifest of the sample being processed
    cmds,         \* <<tool, return code>> of every subprocess started so far
    raised,       \* <<tool, return code>> named by the exception of run_cmd
    fnPc,         \* "call" or "returned": a call of one function on its own
    fnName,       \* the function called
    fnArgs,       \* its arguments
    fnResult      \* the value it returned

samVars == <<samFile, samInput, tmpFile, samPos, samPc, keep, minPerIdentity,
             userKeep, entry, samRuns>>
pafVars == <<pafFile, pafInput, pafPc, maxaccepts, percIdentity, outputNoHits>>
pipeVars == <<pipePc, indexDatabase, referenceReads, manifest, sampleNo, cmds,
              raised>>
fnVars == <<fnPc, fnName, fnArgs, fnResult>>
vars == <<samFile, samInput, tmpFile, samPos, samPc, keep, minPerIdentity,
          userKeep, entry, samRuns, pafFile, pafInput, pafPc, maxaccepts,
          percIdentity, outputNoHits, pipePc, indexDatabase, referenceReads,
          manifest, sampleNo, cmds, raised, fnPc, fnName, fnArgs, fnResult>>

\* Python's None, where a float is optional (a float is a fraction <<num, den>>)
None == <<>>
\* the exception raised by a division by zero, where a float is expected
ZeroDivisionError == <<"ZeroDivisionError">>
\* the exception raised by int() on a string that is not an integer literal
ValueError == <<"ValueError">>

-----------------------------------------------------------------------------
(* Bounds of the model                                                     *)

\* longest SAM file (lines) drawn as input
MaxSamLines == 2
\* longest PAF file (lines) drawn as input
MaxPafLines == 3
\* largest maxaccepts drawn as input
MaxMaxaccepts == 2

\* most passes of process_sam_file made over one file
MaxRuns == 2

\* all sequences over S of length 0..n
SeqsUpTo(S, n) == UNION {[1..k -> S] : k \in 0..n}

-----------------------------------------------------------------------------
(* Fractions standing for Python floats                                    *)

\* a / b as a float (b > 0)
Frac(a, b) == <<a, b>>
\* x >= y
FracGeq(x, y) == x[1] * y[2] >= y[1] * x[2]
\* x < y
FracLt(x, y) == x[1] * y[2] < y[1] * x[2]
\* x > y
FracGt(x, y) == x[1] * y[2] > y[1] * x[2]

\* truth value of an optional float used as a condition: None and 0.0 are false
Truthy(f) == f # None /\ f[1] # 0

\* flag & mask # 0 for a one-bit mask
BitSet(flag, mask) == (flag \div mask) % 2 = 1

-----------------------------------------------------------------------------
(* SAM lines                                                               *)

IsHeader(line) == line[1] \in {"@HD", "@SQ", "@PG", "@CO"}

Digits == {"0", "1", "2", "3", "4", "5", "6", "7", "8", "9"}
DigitVal(ch) ==
    CASE ch = "0" -> 0 [] ch = "1" -> 1 [] ch = "2" -> 2 [] ch = "3" -> 3
      [] ch = "4" -> 4 [] ch = "5" -> 5 [] ch = "6" -> 6 [] ch = "7" -> 7
      [] ch = "8" -> 8 [] ch = "9" -> 9

\* first index j >= i of s that is past the end or not a digit
RECURSIVE DigitRunEnd(_, _)
DigitRunEnd(s, i) ==
    IF i > Len(s) \/ s[i] \notin Digits THEN i ELSE DigitRunEnd(s, i + 1)

\* int() of the digits s[i..j-1]
RECURSIVE DecVal(_, _, _)
DecVal(s, i, j) ==
    IF j <= i THEN 0 ELSE 10 * DecVal(s, i, j - 1) + DigitVal(s[j - 1])

\* s is a decimal integer literal, so int(s) returns
IsIntLiteral(s) == s # <<>> /\ \A i \in DOMAIN s : s[i] \in Digits
\* int(s) for an integer literal s
ParseInt(s) == DecVal(s, 1, Len(s) + 1)
\* flag = int(parts[1])
FlagOf(line) == ParseInt(line[2])

\* sum of the lengths matched by re.findall(r"(\d+)([MID])", cigar) from i on
RECURSIVE FindallSum(_, _)
FindallSum(cigar, i) ==
    IF i > Len(cigar) THEN 0
    ELSE LET j == DigitRunEnd(cigar, i)
         IN  IF j > i /\ j <= Len(cigar) /\ cigar[j] \in {"M", "I", "D"}
             THEN DecVal(cigar, i, j) + FindallSum(cigar, j + 1)
             ELSE FindallSum(cigar, i + 1)

\* the match of re.findall restricted to the operation M
RECURSIVE FindallSumOnlyM(_, _)
FindallSumOnlyM(cigar, i) ==
    IF i > Len(cigar) THEN 0
    ELSE LET j == DigitRunEnd(cigar, i)
         IN  IF j > i /\ j <= Len(cigar) /\ cigar[j] = "M"
             THEN DecVal(cigar, i, j) + FindallSumOnlyM(cigar, j + 1)
             ELSE FindallSumOnlyM(cigar, i + 1)

\* get_alignment_length counting M operations only
get_alignment_length_only_M(cigar) ==
    IF cigar = <<"*">> THEN 0 ELSE FindallSumOnlyM(cigar, 1)

get_alignment_length(cigar) ==
    IF cigar = <<"*">> THEN 0 ELSE FindallSum(cigar, 1)

\* the fields of aln that start with "NM:i:" (tags are fields 12..)
RECURSIVE NMFields(_, _)
NMFields(aln, i) ==
    IF i > Len(aln) THEN <<>>
    ELSE IF aln[i][1] = "NM" /\ aln[i][2] = "i"
         THEN <<aln[i]>> \o NMFields(aln, i + 1)
         ELSE NMFields(aln, i + 1)

\* calculate_identity reading the last NM:i: field instead of the first
calculate_identity_last_NM(aln, total_length) ==
    LET found == NMFields(aln, 12)
        nm == IF found = <<>> THEN 0 ELSE ParseInt(found[Len(found)][3])
        matches == total_length - nm
    IN  IF found # <<>> /\ ~IsIntLiteral(found[Len(found)][3]) THEN ValueError
        ELSE IF total_length = 0 THEN ZeroDivisionError
        ELSE Frac(matches, total_length)

\* identity as a fraction, or the exception raised by int() or the division
calculate_identity(aln, total_length) ==
    LET found == NMFields(aln, 12)
        nm == IF found = <<>> THEN 0 ELSE ParseInt(found[1][3])
        matches == total_length - nm
    IN  IF found # <<>> /\ ~IsIntLiteral(found[1][3]) THEN ValueError
        ELSE IF total_length = 0 THEN ZeroDivisionError
        ELSE Frac(matches, total_length)


-----------------------------------------------------------------------------
(* process_sam_file (q2_pinocchio)                                         *)

\* identity_percentage of lines 86-93: a fraction, or the exception raised
IdentityPercentage(line, min_per_identity) ==
    IF Truthy(min_per_identity) /\ line[6] # <<"*">>
    THEN calculate_identity(line, get_alignment_length(line[6]))
    ELSE Frac(1, 1)

\* Retains without the test of the secondary bit 0x100
RetainsIgnoringSecondary(line, keepArg, min_per_identity, identity_percentage) ==
    IF keepArg = "mapped"
    THEN /\ ~BitSet(FlagOf(line), 4)
         /\ \/ ~Truthy(min_per_identity)
            \/ FracGeq(identity_percentage, min_per_identity)
    ELSE \/ BitSet(FlagOf(line), 4)
         \/ /\ Truthy(min_per_identity)
            /\ FracLt(identity_percentage, min_per_identity)

\* the include/exclude test of lines 97-107: TRUE iff the line is written
Retains(line, keepArg, min_per_identity, identity_percentage) ==
    IF keepArg = "mapped"
    THEN /\ ~BitSet(FlagOf(line), 4)
         /\ ~BitSet(FlagOf(line), 256)
         /\ \/ ~Truthy(min_per_identity)
            \/ FracGeq(identity_percentage, min_per_identity)
    ELSE \/ BitSet(FlagOf(line), 4)
         \/ /\ Truthy(min_per_identity)
            /\ FracLt(identity_percentage, min_per_identity)

\* the function whose loop is running: the one the user called, or the step
\* filter_reads has reached
Running == IF entry = "filter_reads" THEN pipePc ELSE entry

\* the loop body without the test for header lines
LineOutcomeParsesHeader(line, keepArg, min_per_identity) ==
    IF ~IsIntLiteral(line[2]) THEN "ValueError"
    ELSE LET ident == IdentityPercentage(line, min_per_identity)
         IN  IF ident \in {ValueError, ZeroDivisionError} THEN ident[1]
             ELSE IF Retains(line, keepArg, min_per_identity, ident)
                  THEN "write" ELSE "skip"

\* what one iteration of the loop does with a line (lines 76-107): "write" it
\* to the temporary file, "skip" it, or raise the named exception
LineOutcome(line, keepArg, min_per_identity) ==
    IF IsHeader(line) THEN "write"
    ELSE IF ~IsIntLiteral(line[2]) THEN "ValueError"
    ELSE LET ident == IdentityPercentage(line, min_per_identity)
         IN  IF ident \in {ValueError, ZeroDivisionError} THEN ident[1]
             ELSE IF Retains(line, keepArg, min_per_identity, ident)
                  THEN "write" ELSE "skip"

\* one iteration of the for loop of process_sam_file
ProcessSamLine ==
    /\ Running = "process_sam_file"
    /\ samPc = "loop"
    /\ samPos < Len(samFile)
    /\ LET line == samFile[samPos + 1]
           outcome == LineOutcome(line, keep, minPerIdentity)
       IN  IF outcome \in {"write", "skip"}
           THEN /\ tmpFile' = IF outcome = "write" THEN Append(tmpFile, line)
                                                  ELSE tmpFile
                /\ samPos' = samPos + 1
                /\ samPc' = samPc
           ELSE /\ samPc' = outcome
                /\ UNCHANGED <<tmpFile, samPos>>
    /\ UNCHANGED <<samFile, samInput, keep, minPerIdentity, userKeep, entry, samRuns>>
    /\ UNCHANGED <<pafVars, pipeVars>>
    /\ UNCHANGED fnVars

\* the temporary file appended to the input file instead of moved over it
ReplaceSamFileAppending ==
    /\ samPc = "loop"
    /\ samPos = Len(samFile)
    /\ samFile' = samFile \o tmpFile
    /\ samPc' = "done"
    /\ UNCHANGED <<samInput, tmpFile, samPos, keep, minPerIdentity, userKeep, entry, samRuns>>
    /\ UNCHANGED <<pafVars, pipeVars>>
    /\ UNCHANGED fnVars

\* shutil.move(tmp_file.name, input_sam_file) after the loop
ReplaceSamFile ==
    /\ samPc = "loop"
    /\ samPos = Len(samFile)
    /\ samFile' = tmpFile
    /\ samPc' = "done"
    /\ UNCHANGED <<samInput, tmpFile, samPos, keep, minPerIdentity, userKeep, entry, samRuns>>
    /\ UNCHANGED <<pafVars, pipeVars>>
    /\ UNCHANGED fnVars

\* a further call process_sam_file(input_sam_file, keep, min_per_identity)
\* with the same arguments, on the file the previous call left
ProcessSamFileAgain ==
    /\ entry = "process_sam_file"
    /\ samPc = "done"
    /\ samRuns < MaxRuns
    /\ samInput' = samFile
    /\ tmpFile' = <<>>
    /\ samPos' = 0
    /\ samPc' = "loop"
    /\ samRuns' = samRuns + 1
    /\ UNCHANGED <<samFile, keep, minPerIdentity, userKeep, entry>>
    /\ UNCHANGED <<pafVars, pipeVars>>
    /\ UNCHANGED fnVars

-----------------------------------------------------------------------------
(* process_sam_file(input_sam_file, keep_mapped, min_per_identity) of      *)
(* q2_minimap2 and its callers filter_single_end_reads and                 *)
(* filter_paired_end_reads                                                 *)

\* identity_percentage of q2_minimap2 lines 97-104
IdentityPercentageKeepMapped(line, min_per_identity) ==
    IF min_per_identity # None /\ line[6] # <<"*">>
    THEN calculate_identity(line, get_alignment_length(line[6]))
    ELSE Frac(1, 1)

\* the include/exclude test of q2_minimap2 lines 108-125
RetainsKeepMapped(line, keep_mapped, min_per_identity, identity_percentage) ==
    IF keep_mapped
    THEN /\ ~BitSet(FlagOf(line), 4)
         /\ ~BitSet(FlagOf(line), 256)
         /\ \/ /\ min_per_identity # None
               /\ FracGeq(identity_percentage, min_per_identity)
            \/ min_per_identity = None
    ELSE LET keep_this_mapped ==
                 /\ min_per_identity # None
                 /\ FracLt(identity_percentage, min_per_identity)
         IN  BitSet(FlagOf(line), 4) \/ keep_this_mapped

\* exclude_mapped as filter_single_end_reads computes it (line 117)
SingleEndExcludeMapped(keepParam) == keepParam # "mapped"
\* exclude_mapped as filter_paired_end_reads computes it (line 126)
PairedEndExcludeMapped(keepParam) == keepParam = "unmapped"

\* filter_single_end_reads up to its call of process_sam_file: the flag
\* exclude_mapped is passed as the parameter keep_mapped
FilterSingleEndReads ==
    /\ samPc = "idle"
    /\ entry' = "filter_single_end_reads"
    /\ keep' = SingleEndExcludeMapped(userKeep)
    /\ samPc' = "loop"
    /\ UNCHANGED <<samFile, samInput, tmpFile, samPos, minPerIdentity, userKeep, samRuns>>
    /\ UNCHANGED <<pafVars, pipeVars>>
    /\ UNCHANGED fnVars

\* filter_paired_end_reads up to its call of process_sam_file
FilterPairedEndReads ==
    /\ samPc = "idle"
    /\ entry' = "filter_paired_end_reads"
    /\ keep' = PairedEndExcludeMapped(userKeep)
    /\ samPc' = "loop"
    /\ UNCHANGED <<samFile, samInput, tmpFile, samPos, minPerIdentity, userKeep, samRuns>>
    /\ UNCHANGED <<pafVars, pipeVars>>
    /\ UNCHANGED fnVars

\* one iteration of the for loop of q2_minimap2's process_sam_file
ProcessSamLineKeepMapped ==
    /\ entry \in {"filter_single_end_reads", "filter_paired_end_reads"}
    /\ samPc = "loop"
    /\ samPos < Len(samFile)
    /\ LET line == samFile[samPos + 1]
       IN  IF IsHeader(line)
           THEN /\ tmpFile' = Append(tmpFile, line)
                /\ samPos' = samPos + 1
                /\ samPc' = samPc
           ELSE IF ~IsIntLiteral(line[2])
           THEN /\ samPc' = "ValueError"
                /\ UNCHANGED <<tmpFile, samPos>>
           ELSE LET ident == IdentityPercentageKeepMapped(line, minPerIdentity)
                IN  IF ident \in {ValueError, ZeroDivisionError}
                    THEN /\ samPc' = ident[1]
                         /\ UNCHANGED <<tmpFile, samPos>>
                    ELSE /\ tmpFile' =
                             IF RetainsKeepMapped(line, keep, minPerIdentity, ident)
                             THEN Append(tmpFile, line)
                             ELSE tmpFile
                         /\ samPos' = samPos + 1
                         /\ samPc' = samPc
    /\ UNCHANGED <<samFile, samInput, keep, minPerIdentity, userKeep, entry, samRuns>>
    /\ UNCHANGED <<pafVars, pipeVars>>
    /\ UNCHANGED fnVars

-----------------------------------------------------------------------------
(* PAF record filter (q2_minimap2/minimap2_search.py)                      *)

\* line.strip().split("\t", maxsplit=1): the query id and the rest of the line
SplitQuery(line) == <<line[1], Tail(line)>>
\* row["query_id"] + "\t" + row["rest_of_line"] + "\n"
JoinQuery(row) == <<row[1]>> \o row[2]

\* df.groupby("query_id").cumcount() + 1 at row i
Counts(data, i) == Cardinality({j \in 1..(i - 1) : data[j][1] = data[i][1]}) + 1

\* the row filter with < in place of <=
WithinMaxacceptsStrict(counts, maxacc) == counts < maxacc

\* the row filter counts <= maxaccepts of line 28
WithinMaxaccepts(counts, maxacc) == counts <= maxacc

\* the lines written for rows i.. of data
RECURSIVE MaxacceptsRows(_, _, _)
MaxacceptsRows(data, i, maxacc) ==
    IF i > Len(data) THEN <<>>
    ELSE (IF WithinMaxaccepts(Counts(data, i), maxacc)
          THEN <<JoinQuery(data[i])>> ELSE <<>>)
         \o MaxacceptsRows(data, i + 1, maxacc)

\* the content filter_by_maxaccepts leaves in the file
filter_by_maxaccepts(lines, maxacc) ==
    MaxacceptsRows([i \in DOMAIN lines |-> SplitQuery(lines[i])], 1, maxacc)

\* f"{parts[0]}\t{parts[1]}\t0\t0\t*\t*\t0\t0\t0\t0\t0\t0\n"
ModifiedLine(parts) == <<parts[1], parts[2], 0, 0, "*", "*", 0, 0, 0, 0, 0, 0>>

\* the threshold test with > in place of >=
PassesIdentityStrict(identity_score, perc_identity) ==
    FracGt(identity_score, perc_identity)

\* identity_score >= perc_identity of line 55
PassesIdentity(identity_score, perc_identity) ==
    FracGeq(identity_score, perc_identity)

\* the placeholder test without the one-entry-per-query check
MarksUnmappedEveryTime(output_no_hits, query, unmapped_queries) == output_no_hits

\* the condition of line 59: a placeholder is added for a hit below threshold
MarksUnmapped(output_no_hits, query, unmapped_queries) ==
    output_no_hits /\ query \notin unmapped_queries

\* the no-hit condition that never holds
MarksNoHitNever(output_no_hits, query, unmapped_queries) == FALSE

\* the condition of line 67: a placeholder is added for a no-hit record
MarksNoHit(output_no_hits, query, unmapped_queries) ==
    (output_no_hits = TRUE) /\ (query \notin unmapped_queries)

\* the no-hit entry copied from the input line
NoHitEntryVerbatim(parts, line) == line

\* the entry appended for a no-hit record (lines 68-71)
NoHitEntry(parts, line) == ModifiedLine(parts)

\* the for loop of filter_by_perc_identity from line i on: filtered_lines
RECURSIVE PercIdentityLoop(_, _, _, _, _, _)
PercIdentityLoop(lines, i, filtered_lines, unmapped_queries, perc_identity, output_no_hits) ==
    IF i > Len(lines) THEN filtered_lines
    ELSE LET line == lines[i]
             parts == line
         IN  IF parts[11] > 0
             THEN LET identity_score == Frac(parts[10], parts[11])
                  IN  IF PassesIdentity(identity_score, perc_identity)
                      THEN PercIdentityLoop(lines, i + 1,
                               Append(filtered_lines, line), unmapped_queries,
                               perc_identity, output_no_hits)
                      ELSE IF MarksUnmapped(output_no_hits, parts[1],
                                            unmapped_queries)
                           THEN PercIdentityLoop(lines, i + 1,
                                    Append(filtered_lines, ModifiedLine(parts)),
                                    unmapped_queries \cup {parts[1]},
                                    perc_identity, output_no_hits)
                           ELSE PercIdentityLoop(lines, i + 1, filtered_lines,
                                    unmapped_queries, perc_identity,
                                    output_no_hits)
             ELSE IF MarksNoHit(output_no_hits, parts[1], unmapped_queries)
                  THEN PercIdentityLoop(lines, i + 1,
                           Append(filtered_lines, NoHitEntry(parts, line)),
                           unmapped_queries \cup {parts[1]},
                           perc_identity, output_no_hits)
                  ELSE PercIdentityLoop(lines, i + 1, filtered_lines,
                           unmapped_queries, perc_identity, output_no_hits)

\* the filter writing the kept hits first and the placeholders after them
filter_by_perc_identity_grouped(lines, perc_identity, output_no_hits) ==
    LET out == PercIdentityLoop(lines, 1, <<>>, {}, perc_identity, output_no_hits)
    IN  SelectSeq(out, LAMBDA l : l[11] > 0) \o SelectSeq(out, LAMBDA l : l[11] = 0)

\* the content filter_by_perc_identity leaves in the file
filter_by_perc_identity(lines, perc_identity, output_no_hits) ==
    PercIdentityLoop(lines, 1, <<>>, {}, perc_identity, output_no_hits)

\* a call filter_by_maxaccepts(path, maxaccepts)
FilterByMaxaccepts ==
    /\ pafPc = "start"
    /\ pafFile' = filter_by_maxaccepts(pafFile, maxaccepts)
    /\ pafPc' = "capped"
    /\ UNCHANGED <<pafInput, maxaccepts, percIdentity, outputNoHits>>
    /\ UNCHANGED <<samVars, pipeVars>>
    /\ UNCHANGED fnVars

\* a call filter_by_perc_identity(path, perc_identity, output_no_hits)
FilterByPercIdentity ==
    /\ pafPc = "start"
    /\ percIdentity # None
    /\ pafFile' = filter_by_perc_identity(pafFile, percIdentity, outputNoHits)
    /\ pafPc' = "identity"
    /\ UNCHANGED <<pafInput, maxaccepts, percIdentity, outputNoHits>>
    /\ UNCHANGED <<samVars, pipeVars>>
    /\ UNCHANGED fnVars

\* minimap2_search after the aligner wrote the PAF file (lines 141-146)
Minimap2Search ==
    /\ pafPc = "start"
    /\ LET capped == filter_by_maxaccepts(pafFile, maxaccepts)
       IN  pafFile' = IF percIdentity # None
                      THEN filter_by_perc_identity(capped, percIdentity,
                                                   outputNoHits)
                      ELSE capped
    /\ pafPc' = "searched"
    /\ UNCHANGED <<pafInput, maxaccepts, percIdentity, outputNoHits>>
    /\ UNCHANGED <<samVars, pipeVars>>
    /\ UNCHANGED fnVars

-----------------------------------------------------------------------------
(* Inputs                                                                  *)

SamHeaderLine == <<"@HD", <<"V", "N", ":", "1", ".", "6">> >>
SamRecord(qname, flag, cigar, tags) ==
    <<qname, flag, "ref", 1, 60, cigar, "*", 0, 0, "AC", "FF">> \o tags

\* flags 0, 4, 16, 256
SamFlags == {<<"0">>, <<"4">>, <<"1", "6">>, <<"2", "5", "6">>}
SamCigars == {<<"*">>, <<"2", "M">>, <<"2", "S">>}
\* no tag, NM:i:1, NM:i:3
SamTags == {<<>>, << <<"NM", "i", <<"1">> >> >>, << <<"NM", "i", <<"3">> >> >>}
\* records that int() rejects: a flag "x", a tag NM:i:x
MalformedSamLines ==
    {SamRecord("r1", <<"x">>, <<"2", "M">>, <<>>),
     SamRecord("r1", <<"0">>, <<"2", "M">>, << <<"NM", "i", <<"x">> >> >>)}
SamLines ==
    {SamHeaderLine} \cup MalformedSamLines \cup
    {SamRecord("r1", f, c, t) : f \in SamFlags, c \in SamCigars, t \in SamTags}

\* min_per_identity values: not given, 0.0, 0.5, 1.0
Floors == {None, Frac(0, 10), Frac(5, 10), Frac(10, 10)}

PafIdle ==
    /\ pafFile = <<>>
    /\ pafInput = <<>>
    /\ pafPc = "idle"
    /\ maxaccepts = 1
    /\ percIdentity = None
    /\ outputNoHits = TRUE

\* no function was called on its own
FnIdle ==
    /\ fnPc = "none"
    /\ fnName = "none"
    /\ fnArgs = <<>>
    /\ fnResult = <<>>

\* neither filter_reads nor minimap2_search was called
PipeNotCalled ==
    /\ pipePc = "none"
    /\ indexDatabase = FALSE
    /\ referenceReads = FALSE
    /\ manifest = <<>>
    /\ sampleNo = 0
    /\ cmds = <<>>
    /\ raised = <<>>

\* no pipeline and no single function was called
PipeIdle == FnIdle /\ PipeNotCalled

\* a call process_sam_file(input_sam_file, keep, min_per_identity)
InitSam ==
    /\ samFile \in SeqsUpTo(SamLines, MaxSamLines)
    /\ samInput = samFile
    /\ tmpFile = <<>>
    /\ samPos = 0
    /\ samPc = "loop"
    /\ keep \in {"mapped", "unmapped"}
    /\ minPerIdentity \in Floors
    /\ userKeep = keep
    /\ entry = "process_sam_file"
    /\ samRuns = 1
    /\ PafIdle
    /\ PipeIdle

NextSam == ProcessSamLine \/ ReplaceSamFile \/ ProcessSamFileAgain

SpecSam == InitSam /\ [][NextSam]_vars


SamIdle ==
    /\ samFile = <<>>
    /\ samInput = <<>>
    /\ tmpFile = <<>>
    /\ samPos = 0
    /\ samPc = "idle"
    /\ keep = "mapped"
    /\ minPerIdentity = None
    /\ userKeep = "mapped"
    /\ entry = "none"
    /\ samRuns = 0

\* a hit of query q on target t with nmatch matches in a block of blen
PafHit(q, t, nmatch, blen) == <<q, 5, 0, 2, "+", t, 9, 0, 2, nmatch, blen, 60>>
\* a no-hit line as the aligner writes it with --paf-no-hit
PafNoHit(q) == <<q, 5, 0, 0, "*", "*", 0, 0, 0, 0, 0, 0>>
\* a no-hit line followed by a tag
PafNoHitTagged(q) == <<q, 7, 0, 0, "*", "*", 0, 0, 0, 0, 0, 0, "rl:i:0">>

PafQueries == {"q1", "q2"}
PafLines ==
    UNION {{PafHit(q, "t1", 1, 2), PafHit(q, "t2", 2, 2), PafNoHit(q),
            PafNoHitTagged(q)} : q \in PafQueries}

\* perc_identity values: not given, 0.5, 1.0
PercIdentities == {None, Frac(5, 10), Frac(10, 10)}

\* the PAF file written by the aligner and the parameters of the filters
InitPaf ==
    /\ pafFile \in SeqsUpTo(PafLines, MaxPafLines)
    /\ pafInput = pafFile
    /\ pafPc = "start"
    /\ maxaccepts \in 1..MaxMaxaccepts
    /\ percIdentity \in PercIdentities
    /\ outputNoHits \in BOOLEAN
    /\ SamIdle
    /\ PipeIdle

NextPaf == FilterByMaxaccepts \/ FilterByPercIdentity \/ Minimap2Search

SpecPaf == InitPaf /\ [][NextPaf]_vars

\* a call filter_single_end_reads(..., keep, min_per_identity) or
\* filter_paired_end_reads(...), minimap2 having written the SAM file
InitFilterEnds ==
    /\ samFile \in SeqsUpTo(SamLines, MaxSamLines)
    /\ samInput = samFile
    /\ tmpFile = <<>>
    /\ samPos = 0
    /\ samPc = "idle"
    /\ keep = FALSE
    /\ minPerIdentity \in Floors
    /\ userKeep \in {"mapped", "unmapped"}
    /\ entry = "none"
    /\ samRuns = 1
    /\ PafIdle
    /\ PipeIdle

NextFilterEnds ==
    \/ FilterSingleEndReads
    \/ FilterPairedEndReads
    \/ ProcessSamLineKeepMapped
    \/ ReplaceSamFile

SpecFilterEnds == InitFilterEnds /\ [][NextFilterEnds]_vars

-----------------------------------------------------------------------------
(* Properties of the SAM record filter                                     *)

\* the alignment records (non-header lines) of a file, in order
Records(f) == SelectSeq(f, LAMBDA l : ~IsHeader(l))
\* line l occurs in file f
InFile(l, f) == \E i \in DOMAIN f : f[i] = l
\* neither unmapped (0x4) nor secondary (0x100)
PrimaryMapped(l) == ~BitSet(FlagOf(l), 4) /\ ~BitSet(FlagOf(l), 256)
\* the identity of a record as the specification defines it: 1.0 without a
\* CIGAR, else (L - NM) / L; undefined (ZeroDivisionError) when L = 0
SpecIdentity(l) ==
    IF l[6] = <<"*">> THEN Frac(1, 1)
    ELSE calculate_identity(l, get_alignment_length(l[6]))
\* the records of the input whose identity is defined
DefinedRecords ==
    {i \in DOMAIN samInput :
        /\ ~IsHeader(samInput[i])
        /\ SpecIdentity(samInput[i]) \notin {ValueError, ZeroDivisionError}}

\* C1: with policy "mapped" and no identity floor, the records of the output
\* are exactly the input records with neither bit 0x4 nor bit 0x100 set,
\* unmodified and in their original order.
C1_KeepMappedNoFloor ==
    (samPc = "done" /\ keep = "mapped" /\ minPerIdentity = None)
        => Records(samFile) = SelectSeq(Records(samInput), PrimaryMapped)

\* C1 witness: a finished pass over two records, one of them secondary, that
\* kept exactly one of the two
C1_Witness ==
    /\ samPc = "done" /\ keep = "mapped" /\ minPerIdentity = None
    /\ Len(Records(samInput)) = 2
    /\ Len(Records(samFile)) = 1
    /\ \E i \in DOMAIN samInput :
          ~IsHeader(samInput[i]) /\ BitSet(FlagOf(samInput[i]), 256)

\* C2 (as claimed): with policy "unmapped" and a floor F anywhere in
\* 0.0..1.0 a record is retained iff bit 0x4 is set or its identity is below
\* F; with no floor iff bit 0x4 is set.
C2_KeepUnmappedFloor ==
    (samPc = "done" /\ keep = "unmapped")
        => \A i \in DefinedRecords :
             InFile(samInput[i], samFile)
               <=> \/ BitSet(FlagOf(samInput[i]), 4)
                   \/ /\ minPerIdentity # None
                      /\ FracLt(SpecIdentity(samInput[i]), minPerIdentity)

\* C3 (as claimed): with policy "mapped" and a floor F a record is retained
\* iff it is neither unmapped nor secondary and its identity (1.0 for CIGAR
\* '*') is >= F; with no floor the identity test is skipped.
C3_KeepMappedFloor ==
    (samPc = "done" /\ keep = "mapped")
        => \A i \in DefinedRecords :
             InFile(samInput[i], samFile)
               <=> /\ PrimaryMapped(samInput[i])
                   /\ \/ minPerIdentity = None
                      \/ FracGeq(SpecIdentity(samInput[i]), minPerIdentity)

\* C4 (as claimed): the user's keep choice is the policy applied by
\* filter_single_end_reads and filter_paired_end_reads: 'mapped' retains the
\* records that align (0x4 clear, not secondary), 'unmapped' those that do
\* not (0x4 set, plus those below the identity floor).
C4_KeepSelectsPolicy ==
    (samPc = "done"
       /\ entry \in {"filter_single_end_reads", "filter_paired_end_reads"})
        => \A i \in DefinedRecords :
             InFile(samInput[i], samFile)
               <=> IF userKeep = "mapped"
                   THEN /\ PrimaryMapped(samInput[i])
                        /\ \/ minPerIdentity = None
                           \/ FracGeq(SpecIdentity(samInput[i]), minPerIdentity)
                   ELSE \/ BitSet(FlagOf(samInput[i]), 4)
                        \/ /\ minPerIdentity # None
                           /\ FracLt(SpecIdentity(samInput[i]), minPerIdentity)

\* the header lines of a file, in order
Headers(f) == SelectSeq(f, IsHeader)

\* C12: process_sam_file copies every header line unchanged and in its
\* original position relative to the other kept lines, under both policies
\* and with or without a floor: no header is dropped and none is parsed as a
\* record (no exception is raised at a header line).
C12_HeadersCopied ==
    entry = "process_sam_file"
        => /\ samPc = "loop"
                => Headers(tmpFile) = Headers(SubSeq(samInput, 1, samPos))
           /\ samPc \in {"ValueError", "ZeroDivisionError"}
                => ~IsHeader(samInput[samPos + 1])
           /\ samPc = "done"
                => /\ Headers(samFile) = Headers(samInput)
                   /\ samFile = SelectSeq(samInput,
                          LAMBDA l : IsHeader(l) \/ InFile(l, Records(samFile)))

\* C12 witness: a header line that follows a kept record was copied after it
C12_Witness ==
    /\ entry = "process_sam_file" /\ samPc = "done"
    /\ Len(samInput) = 2
    /\ ~IsHeader(samInput[1]) /\ IsHeader(samInput[2])
    /\ samFile = samInput
    /\ keep = "unmapped" /\ minPerIdentity = Frac(5, 10)

\* C13: running process_sam_file with policy "mapped" and no floor on its own
\* output leaves the content unchanged.
C13_Idempotent ==
    (entry = "process_sam_file" /\ samPc = "done" /\ samRuns >= 2
       /\ keep = "mapped" /\ minPerIdentity = None)
        => samFile = samInput

\* C13 witness: a second pass finished over a header line and a record left
\* by the first pass
C13_Witness ==
    /\ entry = "process_sam_file" /\ samPc = "done" /\ samRuns = 2
    /\ keep = "mapped" /\ minPerIdentity = None
    /\ Len(Headers(samInput)) = 1 /\ Len(Records(samInput)) = 1
    /\ samFile = samInput

\* the input file holds its original content until the pass has consumed every
\* line, and then the complete content of the temporary file
InputIntactUntilReplaced ==
    /\ samPc # "done" => samFile = samInput
    /\ samPc = "done" => (samFile = tmpFile /\ samPos = Len(samInput))

\* the record is one whose integer fields the pass has to read and cannot:
\* the flag always, the NM value when a floor is given and the CIGAR is not '*'
Unparsable(l) ==
    \/ ~IsIntLiteral(l[2])
    \/ /\ minPerIdentity # None
       /\ l[6] # <<"*">>
       /\ NMFields(l, 12) # <<>>
       /\ ~IsIntLiteral(NMFields(l, 12)[1][3])

\* C16 (as claimed): process_sam_file never exposes partial output at the
\* input path, and a record whose flag or NM value is not an integer aborts
\* the pass with a parse error at that record (no skip-and-continue), the
\* input file still holding its original content.
C16_AbortsOnParseError ==
    entry = "process_sam_file"
        => /\ InputIntactUntilReplaced
           /\ \A i \in 1..samPos : IsHeader(samInput[i]) \/ ~Unparsable(samInput[i])
           /\ samPc = "ValueError" => Unparsable(samInput[samPos + 1])

-----------------------------------------------------------------------------
(* Properties of the PAF record filter                                     *)

Min(a, b) == IF a <= b THEN a ELSE b
\* the first n elements of a sequence
Prefix(f, n) == SubSeq(f, 1, n)
\* the lines of query q in file f, in order
ByQuery(f, q) == SelectSeq(f, LAMBDA l : l[1] = q)
\* the query ids of file f
QueryIds(f) == {f[i][1] : i \in DOMAIN f}
\* a real hit: block length > 0
IsRealHit(l) == l[11] > 0
\* a real hit whose identity match_count / block_length is >= t
IsPassing(l, t) == l[11] > 0 /\ l[10] * t[2] >= t[1] * l[11]
\* a real hit below t, or a no-hit line
IsFailing(l, t) == ~IsPassing(l, t)
\* a placeholder: query id and length, everything else zeroed or '*'
IsPlaceholder(l) == l = <<l[1], l[2], 0, 0, "*", "*", 0, 0, 0, 0, 0, 0>>
\* file f restricted to the line numbers in idx, in order
RECURSIVE RestrictTo(_, _, _)
RestrictTo(f, idx, i) ==
    IF i > Len(f) THEN <<>>
    ELSE (IF i \in idx THEN <<f[i]>> ELSE <<>>) \o RestrictTo(f, idx, i + 1)
\* line numbers of f that are among the first n of their query id
FirstOfQuery(f, n) ==
    {i \in DOMAIN f : Cardinality({j \in 1..i : f[j][1] = f[i][1]}) <= n}

\* C5: filter_by_maxaccepts with cap N keeps, per query id, exactly the first
\* min(N, count) records in file order, and the output is the input order
\* restricted to the kept records.
C5_FirstNPerQuery ==
    pafPc = "capped"
        => /\ \A q \in PafQueries :
                ByQuery(pafFile, q) =
                    Prefix(ByQuery(pafInput, q),
                           Min(maxaccepts, Len(ByQuery(pafInput, q))))
           /\ pafFile = RestrictTo(pafInput, FirstOfQuery(pafInput, maxaccepts), 1)

\* C5 witness: a query with more records than the cap lost its later ones
C5_Witness ==
    /\ pafPc = "capped"
    /\ \E q \in PafQueries :
          /\ Len(ByQuery(pafInput, q)) > maxaccepts
          /\ Len(ByQuery(pafFile, q)) = maxaccepts
          /\ ByQuery(pafInput, q)[1] # ByQuery(pafInput, q)[maxaccepts + 1]

\* C6 (as claimed): minimap2_search keeps, per query, the first N hits among
\* the hits that pass the identity threshold, so a query with a passing hit
\* has a real hit in the result.  Stated for aligner output made of real
\* hits only.
C6_FirstNThatPass ==
    (pafPc = "searched" /\ percIdentity # None
       /\ \A i \in DOMAIN pafInput : IsRealHit(pafInput[i]))
        => \A q \in PafQueries :
             LET passing == SelectSeq(ByQuery(pafInput, q),
                                      LAMBDA l : IsPassing(l, percIdentity))
             IN  /\ SelectSeq(ByQuery(pafFile, q), IsRealHit) =
                        Prefix(passing, Min(maxaccepts, Len(passing)))
                 /\ passing # <<>> => \E k \in DOMAIN pafFile :
                        pafFile[k][1] = q /\ IsRealHit(pafFile[k])

\* C7: filter_by_perc_identity keeps every record with block length > 0 and
\* identity >= T verbatim, and no real hit below T is in the output: the real
\* hits of the output are the passing input records, in order.
C7_PassingKeptVerbatim ==
    pafPc = "identity"
        => SelectSeq(pafFile, IsRealHit) =
               SelectSeq(pafInput, LAMBDA l : IsPassing(l, percIdentity))

\* C7 witness: a hit exactly at the threshold was kept and a hit below the
\* threshold was dropped
C7_Witness ==
    /\ pafPc = "identity"
    /\ \E i \in DOMAIN pafInput :
          /\ IsRealHit(pafInput[i])
          /\ Frac(pafInput[i][10], pafInput[i][11]) = <<1, 2>>
          /\ percIdentity = Frac(5, 10)
          /\ \E k \in DOMAIN pafFile : pafFile[k] = pafInput[i]
    /\ Len(pafFile) < Len(pafInput)

\* C8: with no-hits output enabled the output holds at most one placeholder
\* per query id; with it disabled the output holds no placeholder (and no
\* record below the threshold).
C8_OnePlaceholderPerQuery ==
    pafPc = "identity"
        => IF outputNoHits
           THEN \A q \in PafQueries :
                    Len(SelectSeq(ByQuery(pafFile, q), IsPlaceholder)) <= 1
           ELSE \A k \in DOMAIN pafFile :
                    ~IsPlaceholder(pafFile[k]) /\ IsPassing(pafFile[k], percIdentity)

\* C8 witness: several hits of one query fell below the threshold and the
\* query got one placeholder
C8_Witness ==
    /\ pafPc = "identity" /\ outputNoHits
    /\ \E q \in PafQueries :
          /\ Len(SelectSeq(ByQuery(pafInput, q),
                           LAMBDA l : IsRealHit(l) /\ IsFailing(l, percIdentity))) >= 2
          /\ Len(SelectSeq(ByQuery(pafFile, q), IsPlaceholder)) = 1

\* C9 (as claimed): every input record with block length 0 is kept verbatim
\* when no-hits output is enabled and dropped when it is disabled.
C9_NoHitVerbatim ==
    pafPc = "identity"
        => \A i \in DOMAIN pafInput :
             pafInput[i][11] = 0 => (InFile(pafInput[i], pafFile) <=> outputNoHits)

\* C9 (amended): an input record with block length 0 is dropped when no-hits
\* output is disabled; when enabled its query id is represented in the output
\* by exactly one record with block length 0, the placeholder built from the
\* first record of that query id that is a no-hit or below the threshold.
C9_NoHitNormalized ==
    pafPc = "identity"
        => \A i \in DOMAIN pafInput :
             pafInput[i][11] = 0
               => IF outputNoHits
                  THEN LET q == pafInput[i][1]
                           failing == SelectSeq(ByQuery(pafInput, q),
                                          LAMBDA l : IsFailing(l, percIdentity))
                       IN  SelectSeq(ByQuery(pafFile, q), LAMBDA l : l[11] = 0)
                               = <<ModifiedLine(failing[1])>>
                  ELSE \A k \in DOMAIN pafFile : pafFile[k][11] > 0

\* C9 witness: a tagged no-hit line was replaced by the placeholder
C9_Witness ==
    /\ pafPc = "identity" /\ outputNoHits
    /\ \E i \in DOMAIN pafInput :
          /\ pafInput[i][11] = 0
          /\ Len(pafInput[i]) = 13
          /\ ~InFile(pafInput[i], pafFile)
          /\ InFile(ModifiedLine(pafInput[i]), pafFile)

\* C10: with output_no_hits = True the result of filter_by_maxaccepts followed
\* by filter_by_perc_identity names exactly the query ids of the PAF input.
C10_AllQueriesReported ==
    (pafPc = "searched" /\ outputNoHits)
        => QueryIds(pafFile) = QueryIds(pafInput)

\* C10 witness: two queries, one of them reported only by a placeholder
C10_Witness ==
    /\ pafPc = "searched" /\ outputNoHits /\ percIdentity # None
    /\ Cardinality(QueryIds(pafInput)) = 2
    /\ \E q \in QueryIds(pafInput) :
          /\ \E i \in DOMAIN pafInput : pafInput[i][1] = q /\ IsRealHit(pafInput[i])
          /\ SelectSeq(ByQuery(pafFile, q), IsRealHit) = <<>>
          /\ SelectSeq(ByQuery(pafFile, q), IsPlaceholder) # <<>>

-----------------------------------------------------------------------------
(* process_paired_sam_flags (q2_pinocchio)                                 *)

\* x | mask for a one-bit mask
BitOr(x, mask) == IF BitSet(x, mask) THEN x ELSE x + mask

DigitChar(d) ==
    CASE d = 0 -> "0" [] d = 1 -> "1" [] d = 2 -> "2" [] d = 3 -> "3"
      [] d = 4 -> "4" [] d = 5 -> "5" [] d = 6 -> "6" [] d = 7 -> "7"
      [] d = 8 -> "8" [] d = 9 -> "9"

\* str(n) for an int n >= 0
RECURSIVE Str(_)
Str(n) == IF n < 10 THEN <<DigitChar(n)>>
          ELSE Append(Str(n \div 10), DigitChar(n % 10))

\* the new flags with 77 and 141 for a pair of unmapped reads
PairedFlagsUnmappedPair(flag1, flag2) ==
    IF flag1 = 4 /\ flag2 = 4
    THEN << <<"7", "7">>, <<"1", "4", "1">> >>
    ELSE <<Str(BitOr(BitOr(flag1, 1), 64)), Str(BitOr(BitOr(flag2, 1), 128))>>

\* the new flags with + in place of |
PairedFlagsAdding(flag1, flag2) ==
    IF flag1 = 4 /\ flag2 = 4
    THEN << <<"6", "9">>, <<"1", "3", "3">> >>
    ELSE <<Str(flag1 + 1 + 64), Str(flag2 + 1 + 128)>>

\* the new read1[1] and read2[1] of lines 231-236
PairedFlags(flag1, flag2) ==
    IF flag1 = 4 /\ flag2 = 4
    THEN << <<"6", "9">>, <<"1", "3", "3">> >>
    ELSE <<Str(BitOr(BitOr(flag1, 1), 64)), Str(BitOr(BitOr(flag2, 1), 128))>>

\* what lines 231-236 do with the fields read1 and read2: "write" the pair or
\* raise the named exception (read1[1] is evaluated before read2[1])
PairOutcome(read1, read2) ==
    IF Len(read1) < 2 THEN "IndexError"
    ELSE IF ~IsIntLiteral(read1[2]) THEN "ValueError"
    ELSE IF Len(read2) < 2 THEN "IndexError"
    ELSE IF ~IsIntLiteral(read2[2]) THEN "ValueError"
    ELSE "write"

\* the two lines written with the second line a copy of the first
WritePairTwice(read1, read2, flags) ==
    <<[read1 EXCEPT ![2] = flags[1]], [read1 EXCEPT ![2] = flags[2]]>>

\* the two lines written by lines 238-239
WritePair(read1, read2, flags) ==
    <<[read1 EXCEPT ![2] = flags[1]], [read2 EXCEPT ![2] = flags[2]]>>

\* readline() returning the last line once more at the end of the file
ReadLineFieldsRepeating(f, pos) == IF pos < Len(f) THEN f[pos + 1] ELSE f[pos]

\* infile.readline().strip().split("\t") at position pos of the file: the
\* fields of the next line, or one empty field at the end of the file
ReadLineFields(f, pos) == IF pos < Len(f) THEN f[pos + 1] ELSE <<"">>

\* one iteration of the for loop of process_paired_sam_flags: a header line,
\* or a record together with the line that follows it
ProcessPairedSamLines ==
    /\ Running = "process_paired_sam_flags"
    /\ samPc = "loop"
    /\ samPos < Len(samFile)
    /\ LET line == samFile[samPos + 1]
           read1 == line
           read2 == ReadLineFields(samFile, samPos + 1)
           outcome == PairOutcome(read1, read2)
       IN  IF IsHeader(line)
           THEN /\ tmpFile' = Append(tmpFile, line)
                /\ samPos' = samPos + 1
                /\ samPc' = samPc
           ELSE IF outcome = "write"
           THEN /\ tmpFile' = tmpFile \o
                       WritePair(read1, read2,
                                 PairedFlags(ParseInt(read1[2]), ParseInt(read2[2])))
                /\ samPos' = samPos + 2
                /\ samPc' = samPc
           ELSE /\ samPc' = outcome
                /\ UNCHANGED <<tmpFile, samPos>>
    /\ UNCHANGED <<samFile, samInput, keep, minPerIdentity, userKeep, entry, samRuns>>
    /\ UNCHANGED <<pafVars, pipeVars>>
    /\ UNCHANGED fnVars

\* longest SAM file (lines) given to process_paired_sam_flags
MaxPairedLines == 4

\* flags 0, 4, 16, 77
PairedInFlags == {<<"0">>, <<"4">>, <<"1", "6">>, <<"7", "7">>}
PairedSamLines ==
    {SamHeaderLine, SamRecord("r1", <<"x">>, <<"*">>, <<>>)} \cup
    {SamRecord(q, f, <<"*">>, <<>>) : q \in {"r1", "r2"}, f \in PairedInFlags}

\* a call process_paired_sam_flags(input_sam_path)
InitPairedFlags ==
    /\ samFile \in SeqsUpTo(PairedSamLines, MaxPairedLines)
    /\ samInput = samFile
    /\ tmpFile = <<>>
    /\ samPos = 0
    /\ samPc = "loop"
    /\ keep = "mapped"
    /\ minPerIdentity = None
    /\ userKeep = "mapped"
    /\ entry = "process_paired_sam_flags"
    /\ samRuns = 1
    /\ PafIdle
    /\ PipeIdle

NextPairedFlags == ProcessPairedSamLines \/ ReplaceSamFile

SpecPairedFlags == InitPairedFlags /\ [][NextPairedFlags]_vars

\* the one-bit masks of the SAM flag field
FlagMasks == {1, 2, 4, 8, 16, 32, 64, 128, 256, 512, 1024, 2048}

\* C11: process_paired_sam_flags rewrites the flags of each consecutive pair
\* of records (a, b): both exactly 4 become 69 and 133; otherwise a becomes
\* a|1|64 and b becomes b|1|128, and every bit set in a or b is still set.
C11_PairedFlagRule ==
    (entry = "process_paired_sam_flags" /\ samPc = "done")
        => LET inp == Records(samInput)
               out == Records(samFile)
           IN  /\ Len(out) = Len(inp)
               /\ Len(inp) % 2 = 0
               /\ \A k \in 1..(Len(inp) \div 2) :
                    LET a == FlagOf(inp[2 * k - 1])
                        b == FlagOf(inp[2 * k])
                        a2 == FlagOf(out[2 * k - 1])
                        b2 == FlagOf(out[2 * k])
                    IN  /\ IsIntLiteral(out[2 * k - 1][2])
                        /\ IsIntLiteral(out[2 * k][2])
                        /\ (a = 4 /\ b = 4) => (a2 = 69 /\ b2 = 133)
                        /\ \A m \in FlagMasks :
                             /\ BitSet(a2, m) <=> (BitSet(a, m) \/ m \in {1, 64})
                             /\ BitSet(b2, m) <=> (BitSet(b, m) \/ m \in {1, 128})

\* C11 witness: a pass over a pair of flags 4, 4 and a pair of flags 77, 16
\* wrote 69, 133 and 77, 145
C11_Witness ==
    /\ entry = "process_paired_sam_flags" /\ samPc = "done"
    /\ Len(Records(samInput)) = 4
    /\ [i \in 1..4 |-> FlagOf(Records(samInput)[i])] = <<4, 4, 77, 16>>
    /\ [i \in 1..4 |-> FlagOf(Records(samFile)[i])] = <<69, 133, 77, 145>>

\* every header line of f precedes every record of f
HeadersFirst(f) == \A i, j \in DOMAIN f : (i < j /\ IsHeader(f[j])) => IsHeader(f[i])

-----------------------------------------------------------------------------
(* filter_reads / _minimap2_filter_reads (q2_minimap2/filter_reads.py) and *)
(* minimap2_search (q2_minimap2/minimap2_search.py)                        *)

\* most samples in the manifest of query_reads
MaxSamples == 2

\* the configuration check with the test for "neither supplied" left out
ConfigConflictOnlyBoth(reference_reads, index_database) ==
    reference_reads /\ index_database

\* the two checks at the top of filter_reads and of minimap2_search: both
\* inputs supplied, or neither
ConfigConflict(reference_reads, index_database) ==
    \/ reference_reads /\ index_database
    \/ ~reference_reads /\ ~index_database

\* run_cmd that lets a failed command pass
RaisesNever(returncode) == FALSE

\* subprocess.run(cmd, check=True) raises CalledProcessError, which run_cmd
\* turns into its Exception
Raises(returncode) == returncode # 0

\* exit codes a subprocess returns
ReturnCodes == {0, 1}

\* the record of one mate of read qname as the aligner writes it: mapped
\* (flag 0, CIGAR 2M) or unmapped (flag 4, CIGAR *); SEQ tells the mates apart
MateRecord(qname, mate, flag) ==
    [SamRecord(qname, flag, IF flag = <<"4">> THEN <<"*">> ELSE <<"2", "M">>, <<>>)
        EXCEPT ![10] = IF mate = 1 THEN "AC" ELSE "GT"]

PipeNames == {"r1", "r2"}
PipeFlags == {<<"0">>, <<"4">>}

\* the records of the two mates of read q
PairAlignment(q, f1, f2) == <<MateRecord(q, 1, f1), MateRecord(q, 2, f2)>>

\* SAM files the aligner writes for a paired-end sample: a header line, then
\* for each read of the sample the records of its two mates
PairedAlignments ==
    {<<SamHeaderLine>>} \cup
    {<<SamHeaderLine>> \o PairAlignment(q, f1, f2) :
        q \in PipeNames, f1 \in PipeFlags, f2 \in PipeFlags} \cup
    {<<SamHeaderLine>> \o PairAlignment(q[1], f[1], f[2]) \o PairAlignment(q[2], f[3], f[4]) :
        q \in {<<"r1", "r2">>, <<"r2", "r1">>}, f \in [1..4 -> PipeFlags]}

\* SAM files the aligner writes for a single-end sample
SingleAlignments ==
    {<<SamHeaderLine>>} \cup
    {<<SamHeaderLine, MateRecord(q, 1, f)>> : q \in PipeNames, f \in PipeFlags} \cup
    {<<SamHeaderLine, MateRecord("r1", 1, f1), MateRecord("r2", 1, f2)>> :
        f1 \in PipeFlags, f2 \in PipeFlags}

\* records of equal name are adjacent in f
Grouped(f) ==
    \A i, j, k \in DOMAIN f : (i < j /\ j < k /\ f[i][1] = f[k][1]) => f[j][1] = f[i][1]

\* the files samtools collate may write for f: the header lines, then the
\* records in some order that puts records of the same name next to each other
Collations(f) ==
    LET recs == Records(f)
        n == Len(recs)
        perms == {p \in [1..n -> 1..n] : \A i, j \in 1..n : i # j => p[i] # p[j]}
    IN  {Headers(f) \o [i \in 1..n |-> recs[p[i]]] :
            p \in {q \in perms : Grouped([i \in 1..n |-> recs[q[i]]])}}

\* filter_reads lines 92-103 and the start of the loop over the manifest
FilterReadsValidate ==
    /\ entry = "filter_reads"
    /\ pipePc = "called"
    /\ IF ConfigConflict(referenceReads, indexDatabase)
       THEN pipePc' = "ValueError" /\ sampleNo' = sampleNo
       ELSE pipePc' = "minimap2" /\ sampleNo' = 1
    /\ UNCHANGED <<indexDatabase, referenceReads, manifest, cmds, raised>>
    /\ UNCHANGED <<samVars, pafVars>>
    /\ UNCHANGED fnVars

\* run_cmd(mn2_cmd, "Minimap2") of _minimap2_filter_reads and, if it returns,
\* the call of process_sam_file on the SAM file the aligner wrote
RunMinimap2 ==
    /\ entry = "filter_reads"
    /\ pipePc = "minimap2"
    /\ \E rc \in ReturnCodes :
         /\ cmds' = Append(cmds, <<"Minimap2", rc>>)
         /\ IF Raises(rc)
            THEN /\ pipePc' = "Exception"
                 /\ raised' = <<"Minimap2", rc>>
                 /\ UNCHANGED <<samFile, samInput, tmpFile, samPos, samPc, samRuns>>
            ELSE /\ pipePc' = "process_sam_file"
                 /\ raised' = raised
                 /\ samFile' \in IF manifest[sampleNo] THEN PairedAlignments
                                                      ELSE SingleAlignments
                 /\ samInput' = samFile'
                 /\ tmpFile' = <<>>
                 /\ samPos' = 0
                 /\ samPc' = "loop"
                 /\ samRuns' = 1
    /\ UNCHANGED <<keep, minPerIdentity, userKeep, entry>>
    /\ UNCHANGED <<indexDatabase, referenceReads, manifest, sampleNo>>
    /\ UNCHANGED pafVars
    /\ UNCHANGED fnVars

\* the test taking every sample for a paired one
HasReverseReadsAlways(reads2) == TRUE

\* the test `if reads2:` of _minimap2_filter_reads; reads2 is TRUE for a
\* sample with a file of reverse reads
HasReverseReads(reads2) == reads2

\* collate_sam_inplace(sam_f.name) for a sample with reverse reads and, if it
\* returns, the call of process_paired_sam_flags
CollateSamInplace ==
    /\ entry = "filter_reads"
    /\ pipePc = "process_sam_file"
    /\ samPc = "done"
    /\ HasReverseReads(manifest[sampleNo])
    /\ \E rc \in ReturnCodes :
         /\ cmds' = Append(cmds, <<"Samtools collate", rc>>)
         /\ IF Raises(rc)
            THEN /\ pipePc' = "Exception"
                 /\ raised' = <<"Samtools collate", rc>>
                 /\ UNCHANGED <<samFile, samInput, tmpFile, samPos, samPc>>
            ELSE /\ pipePc' = "process_paired_sam_flags"
                 /\ raised' = raised
                 /\ samFile' \in Collations(samFile)
                 /\ samInput' = samFile'
                 /\ tmpFile' = <<>>
                 /\ samPos' = 0
                 /\ samPc' = "loop"
    /\ UNCHANGED <<keep, minPerIdentity, userKeep, entry, samRuns>>
    /\ UNCHANGED <<indexDatabase, referenceReads, manifest, sampleNo>>
    /\ UNCHANGED pafVars
    /\ UNCHANGED fnVars

\* run_cmd(convert_to_fastq_cmd, "samtools fastq"), the last step of
\* _minimap2_filter_reads, and the next iteration or the return of filter_reads
RunSamtoolsFastq ==
    /\ entry = "filter_reads"
    /\ samPc = "done"
    /\ pipePc = IF HasReverseReads(manifest[sampleNo])
                THEN "process_paired_sam_flags"
                ELSE "process_sam_file"
    /\ \E rc \in ReturnCodes :
         /\ cmds' = Append(cmds, <<"samtools fastq", rc>>)
         /\ IF Raises(rc)
            THEN /\ pipePc' = "Exception"
                 /\ raised' = <<"samtools fastq", rc>>
                 /\ sampleNo' = sampleNo
            ELSE /\ raised' = raised
                 /\ IF sampleNo < Len(manifest)
                    THEN pipePc' = "minimap2" /\ sampleNo' = sampleNo + 1
                    ELSE pipePc' = "returned" /\ sampleNo' = sampleNo
    /\ UNCHANGED <<indexDatabase, referenceReads, manifest>>
    /\ UNCHANGED <<samVars, pafVars>>
    /\ UNCHANGED fnVars

\* minimap2_search lines 110-121
Minimap2SearchValidate ==
    /\ entry = "minimap2_search"
    /\ pipePc = "called"
    /\ pipePc' = IF ConfigConflict(referenceReads, indexDatabase)
                 THEN "ValueError" ELSE "minimap2"
    /\ UNCHANGED <<indexDatabase, referenceReads, manifest, sampleNo, cmds, raised>>
    /\ UNCHANGED <<samVars, pafVars>>
    /\ UNCHANGED fnVars

\* run_cmd(cmd, "Minimap2") of minimap2_search (line 139): the aligner writes
\* the PAF file
RunMinimap2Search ==
    /\ entry = "minimap2_search"
    /\ pipePc = "minimap2"
    /\ \E rc \in ReturnCodes :
         /\ cmds' = Append(cmds, <<"Minimap2", rc>>)
         /\ IF Raises(rc)
            THEN /\ pipePc' = "Exception"
                 /\ raised' = <<"Minimap2", rc>>
                 /\ UNCHANGED <<pafFile, pafInput, pafPc>>
            ELSE /\ pipePc' = "filters"
                 /\ raised' = raised
                 /\ pafFile' \in SeqsUpTo(PafLines, 1)
                 /\ pafInput' = pafFile'
                 /\ pafPc' = "start"
    /\ UNCHANGED <<maxaccepts, percIdentity, outputNoHits>>
    /\ UNCHANGED <<indexDatabase, referenceReads, manifest, sampleNo>>
    /\ UNCHANGED samVars
    /\ UNCHANGED fnVars

\* minimap2_search returns the filtered PAF file as a data frame
Minimap2SearchReturn ==
    /\ entry = "minimap2_search"
    /\ pipePc = "filters"
    /\ pafPc = "searched"
    /\ pipePc' = "returned"
    /\ UNCHANGED <<indexDatabase, referenceReads, manifest, sampleNo, cmds, raised>>
    /\ UNCHANGED <<samVars, pafVars>>
    /\ UNCHANGED fnVars

\* a call filter_reads(query_reads, index_database, reference_reads, ...,
\* keep, min_per_identity) or minimap2_search(query_reads, index_database,
\* reference_reads, ..., maxaccepts, perc_identity, output_no_hits)
InitPipeline ==
    /\ entry \in {"filter_reads", "minimap2_search"}
    /\ pipePc = "called"
    /\ indexDatabase \in BOOLEAN
    /\ referenceReads \in BOOLEAN
    /\ manifest \in IF entry = "filter_reads"
                    THEN SeqsUpTo(BOOLEAN, MaxSamples) \ {<<>>}
                    ELSE {<<>>}
    /\ sampleNo = 0
    /\ cmds = <<>>
    /\ raised = <<>>
    /\ samFile = <<>>
    /\ samInput = <<>>
    /\ tmpFile = <<>>
    /\ samPos = 0
    /\ samPc = "idle"
    /\ keep \in IF entry = "filter_reads" THEN {"mapped", "unmapped"} ELSE {"mapped"}
    /\ minPerIdentity \in IF entry = "filter_reads" THEN {None, Frac(5, 10)} ELSE {None}
    /\ userKeep = keep
    /\ samRuns = 0
    /\ pafFile = <<>>
    /\ pafInput = <<>>
    /\ pafPc = "idle"
    /\ maxaccepts = 1
    /\ percIdentity \in IF entry = "minimap2_search" THEN {None, Frac(5, 10)} ELSE {None}
    /\ outputNoHits = TRUE
    /\ FnIdle

NextPipeline ==
    \/ FilterReadsValidate
    \/ RunMinimap2
    \/ ProcessSamLine
    \/ ReplaceSamFile
    \/ CollateSamInplace
    \/ ProcessPairedSamLines
    \/ RunSamtoolsFastq
    \/ Minimap2SearchValidate
    \/ RunMinimap2Search
    \/ Minimap2Search
    \/ Minimap2SearchReturn

SpecPipeline == InitPipeline /\ [][NextPipeline]_vars

-----------------------------------------------------------------------------
(* Properties of filter_reads and minimap2_search                          *)

\* C14: a configuration conflict (both an index database and reference reads
\* supplied, or neither) makes filter_reads and minimap2_search raise
\* ValueError before anything else happens: no subprocess is started and no
\* filter step is executed.
C14_ConfigRejectedFirst ==
    (entry \in {"filter_reads", "minimap2_search"} /\ pipePc # "called"
       /\ indexDatabase = referenceReads)
        => /\ pipePc = "ValueError"
           /\ cmds = <<>>
           /\ samPc = "idle" /\ samFile = <<>> /\ tmpFile = <<>>
           /\ pafPc = "idle" /\ pafFile = <<>>

\* C14 witness: filter_reads was called with both inputs and raised ValueError
C14_Witness ==
    /\ entry = "filter_reads" /\ pipePc = "ValueError"
    /\ indexDatabase /\ referenceReads
    /\ cmds = <<>>

\* a command that exited with a non-zero code is the last one started, and
\* the exception raised names its tool and its return code
FailedCommandIsLast ==
    /\ \A i \in DOMAIN cmds :
         cmds[i][2] # 0
            => (i = Len(cmds) /\ pipePc = "Exception" /\ raised = cmds[i])
    /\ pipePc = "Exception"
         => (cmds # <<>> /\ cmds[Len(cmds)][2] # 0 /\ raised = cmds[Len(cmds)])

\* C15: when a command run through run_cmd exits with a non-zero code, an
\* exception naming the tool and the return code is raised, the command is
\* not retried and no later step of the invocation (SAM filtering, collate,
\* flag normalization, FASTQ conversion, later samples) is executed: the
\* failed command is the last one started and no step follows the exception.
C15_FailureIsFatal == []FailedCommandIsLast /\ [][pipePc # "Exception"]_vars

\* C15 witness: samtools collate failed for the second sample, after five
\* commands that succeeded
C15_Witness ==
    /\ pipePc = "Exception"
    /\ raised = <<"Samtools collate", 1>>
    /\ sampleNo = 2
    /\ Len(cmds) >= 5

\* C17 (as claimed): in the paired-end pipeline (process_sam_file, collate by
\* query name, process_paired_sam_flags) every two records consumed together
\* as first and second in pair are mates, i.e. have the same query name, for
\* every alignment result and both keep policies.
C17_MatesPaired ==
    (entry = "filter_reads" /\ pipePc = "process_paired_sam_flags"
       /\ samPc = "loop" /\ samPos < Len(samFile)
       /\ ~IsHeader(samFile[samPos + 1]))
        => /\ samPos + 2 <= Len(samFile)
           /\ samFile[samPos + 2][1] = samFile[samPos + 1][1]

\* the last command started, or <<"none", 0>> before the first
LastCommand(c) == IF c = <<>> THEN <<"none", 0>> ELSE c[Len(c)]

\* one step of filter_reads keeps the order of the steps of the sample
StepInOrder ==
    LET paired == sampleNo >= 1 /\ manifest[sampleNo]
        started == IF Len(cmds') > Len(cmds) THEN LastCommand(cmds')[1] ELSE "none"
    IN  /\ started = "Minimap2"
            => /\ pipePc = "minimap2"
               /\ LastCommand(cmds) \in {<<"none", 0>>, <<"samtools fastq", 0>>}
        /\ (pipePc' = "process_sam_file" /\ pipePc # "process_sam_file")
            => /\ started = "Minimap2"
               /\ LastCommand(cmds') = <<"Minimap2", 0>>
               /\ samPc' = "loop" /\ samPos' = 0
        /\ started = "Samtools collate"
            => /\ paired
               /\ pipePc = "process_sam_file" /\ samPc = "done"
               /\ LastCommand(cmds) = <<"Minimap2", 0>>
        /\ (pipePc' = "process_paired_sam_flags" /\ pipePc # "process_paired_sam_flags")
            => /\ paired
               /\ started = "Samtools collate"
               /\ LastCommand(cmds') = <<"Samtools collate", 0>>
               /\ samPc' = "loop" /\ samPos' = 0
        /\ started = "samtools fastq"
            => /\ samPc = "done"
               /\ IF paired
                  THEN /\ pipePc = "process_paired_sam_flags"
                       /\ LastCommand(cmds) = <<"Samtools collate", 0>>
                  ELSE /\ pipePc = "process_sam_file"
                       /\ LastCommand(cmds) = <<"Minimap2", 0>>
        /\ (samPc' # samPc \/ tmpFile' # tmpFile \/ samPos' # samPos)
            => \/ started \in {"Minimap2", "Samtools collate"}
               \/ /\ started = "none"
                  /\ pipePc' = pipePc
                  /\ pipePc \in {"process_sam_file", "process_paired_sam_flags"}
                  /\ pipePc = "process_paired_sam_flags" => paired

\* C24: the steps of _minimap2_filter_reads run in the order minimap2,
\* process_sam_file, samtools collate, process_paired_sam_flags, samtools
\* fastq for a paired sample, each only after the previous one completed
\* without error; for a single-end sample the order is minimap2,
\* process_sam_file, samtools fastq, and neither collate nor
\* process_paired_sam_flags is run.
C24_StepOrder == [][entry = "filter_reads" => StepInOrder]_vars

\* a paired sample and then a single-end sample went through all their steps
C24_Witness ==
    /\ entry = "filter_reads"
    /\ pipePc = "returned"
    /\ manifest = <<TRUE, FALSE>>
    /\ cmds = << <<"Minimap2", 0>>, <<"Samtools collate", 0>>, <<"samtools fastq", 0>>,
                 <<"Minimap2", 0>>, <<"samtools fastq", 0>> >>

-----------------------------------------------------------------------------
(* Further properties of the PAF record filter                             *)

\* C19 (as claimed): after filter_by_perc_identity with no-hits output
\* enabled a query id is represented either by retained real hits or by
\* exactly one placeholder, never by both.  Stated for aligner output made of
\* real hits only.
C19_HitsOrPlaceholder ==
    (pafPc = "identity" /\ outputNoHits
       /\ \A i \in DOMAIN pafInput : IsRealHit(pafInput[i]))
        => \A q \in QueryIds(pafFile) :
             LET hits == SelectSeq(ByQuery(pafFile, q), IsRealHit)
                 placeholders == SelectSeq(ByQuery(pafFile, q), IsPlaceholder)
             IN  \/ hits # <<>> /\ placeholders = <<>>
                 \/ hits = <<>> /\ Len(placeholders) = 1

\* C20: filter_by_perc_identity preserves the row order: the output lines
\* correspond one by one to input lines of strictly increasing index, each
\* either a passing record copied verbatim or the placeholder of a query
\* standing at that query's first failing or no-hit record.
C20_OrderPreserved ==
    pafPc = "identity"
        => \E f \in [1..Len(pafFile) -> 1..Len(pafInput)] :
             /\ \A k \in 1..(Len(pafFile) - 1) : f[k] < f[k + 1]
             /\ \A k \in 1..Len(pafFile) :
                  LET l == pafInput[f[k]]
                  IN  \/ IsPassing(l, percIdentity) /\ pafFile[k] = l
                      \/ /\ IsFailing(l, percIdentity)
                         /\ pafFile[k] = ModifiedLine(l)
                         /\ \A j \in 1..(f[k] - 1) :
                              pafInput[j][1] = l[1]
                                 => IsPassing(pafInput[j], percIdentity)

\* C20 witness: the placeholder of one query stands between two kept hits of
\* another query, where its failing record stood
C20_Witness ==
    /\ pafPc = "identity" /\ outputNoHits
    /\ Len(pafInput) = 3 /\ Len(pafFile) = 3
    /\ pafFile[1] = pafInput[1] /\ IsRealHit(pafFile[1])
    /\ pafFile[3] = pafInput[3] /\ IsRealHit(pafFile[3])
    /\ IsRealHit(pafInput[2]) /\ IsPlaceholder(pafFile[2])
    /\ pafFile[2][1] = pafInput[2][1]

-----------------------------------------------------------------------------
(* Further properties of the SAM record filter                             *)

\* a record with a CIGAR other than '*' whose M/I/D lengths sum to 0
ZeroLengthAlignment(l) ==
    /\ ~IsHeader(l)
    /\ IsIntLiteral(l[2])
    /\ l[6] # <<"*">>
    /\ get_alignment_length(l[6]) = 0
    /\ (NMFields(l, 12) # <<>> => IsIntLiteral(NMFields(l, 12)[1][3]))

\* C21 (as claimed): with an identity floor set, process_sam_file fails with
\* a division-by-zero error at a record whose CIGAR is not '*' but whose
\* M/I/D lengths sum to 0: the record is neither retained nor dropped and
\* the pass does not complete.
C21_ZeroLengthFails ==
    (entry = "process_sam_file" /\ minPerIdentity # None)
        => /\ \A i \in 1..samPos : ~ZeroLengthAlignment(samInput[i])
           /\ samPc = "ZeroDivisionError" => ZeroLengthAlignment(samInput[samPos + 1])
           /\ samPc = "done" => \A i \in DOMAIN samInput :
                                    ~ZeroLengthAlignment(samInput[i])

-----------------------------------------------------------------------------
(* Calls of single functions: calculate_identity, get_alignment_length,    *)
(* set_penalties, the flag rule of process_paired_sam_flags, and           *)
(* process_sam_file under both keep policies                               *)

\* largest total_length passed to calculate_identity
MaxTotalLength == 4
\* longest CIGAR string (characters) passed to get_alignment_length
MaxCigarLen == 4

\* optional tags of the lines passed to calculate_identity: NM:i:1, NM:i:3,
\* AS:i:2, NM:i:x
IdentityTags ==
    {<<"NM", "i", <<"1">> >>, <<"NM", "i", <<"3">> >>, <<"AS", "i", <<"2">> >>,
     <<"NM", "i", <<"x">> >>}
\* characters of the CIGAR strings passed to get_alignment_length
CigarChars == {"1", "2", "0", "M", "I", "D", "S", "*"}

\* the examples of CIGAR strings: 10M, 5M2I3D, 5M3S2I4D, MID
CigarExamples ==
    {<<"1", "0", "M">>, <<"5", "M", "2", "I", "3", "D">>,
     <<"5", "M", "3", "S", "2", "I", "4", "D">>, <<"M", "I", "D">>}


\* a call calculate_identity(aln, total_length)
CallCalculateIdentity ==
    /\ fnPc = "call"
    /\ fnName = "calculate_identity"
    /\ fnResult' = calculate_identity(fnArgs[1], fnArgs[2])
    /\ fnPc' = "returned"
    /\ UNCHANGED <<fnName, fnArgs>>
    /\ UNCHANGED <<samVars, pafVars, pipeVars>>

\* a call get_alignment_length(cigar)
CallGetAlignmentLength ==
    /\ fnPc = "call"
    /\ fnName = "get_alignment_length"
    /\ fnResult' = get_alignment_length(fnArgs[1])
    /\ fnPc' = "returned"
    /\ UNCHANGED <<fnName, fnArgs>>
    /\ UNCHANGED <<samVars, pafVars, pipeVars>>

\* the arguments of a call calculate_identity(aln, total_length)
CalculateIdentityArgs ==
    {<<SamRecord("r1", <<"0">>, <<"2", "M">>, t), n>> :
        t \in SeqsUpTo(IdentityTags, 2), n \in 0..MaxTotalLength}
\* the arguments of a call get_alignment_length(cigar)
GetAlignmentLengthArgs ==
    {<<c>> : c \in SeqsUpTo(CigarChars, MaxCigarLen) \cup CigarExamples}

\* the index of the first field of aln that starts with NM:i:, or 0
FirstNMIndex(aln) ==
    LET idx == {i \in 12..Len(aln) : aln[i][1] = "NM" /\ aln[i][2] = "i"}
    IN  IF idx = {} THEN 0 ELSE CHOOSE i \in idx : \A k \in idx : i <= k
\* NM of the claim: the integer of the first NM:i: field, else 0
FirstNM(aln) ==
    IF FirstNMIndex(aln) = 0 THEN 0 ELSE ParseInt(aln[FirstNMIndex(aln)][3])
\* the first NM:i: field of aln, if any, holds an integer
FirstNMParses(aln) ==
    FirstNMIndex(aln) # 0 => IsIntLiteral(aln[FirstNMIndex(aln)][3])

OperationPositions(cigar) ==
    {j \in 2..Len(cigar) : cigar[j] \in {"M", "I", "D"} /\ cigar[j - 1] \in Digits}
\* the number written by the longest run of digits that ends just before j
RunBefore(cigar, j) ==
    LET i == CHOOSE i \in 1..(j - 1) :
                /\ \A k \in i..(j - 1) : cigar[k] \in Digits
                /\ i = 1 \/ cigar[i - 1] \notin Digits
    IN  DecVal(cigar, i, j)
RECURSIVE SumRunsBefore(_, _)
SumRunsBefore(cigar, S) ==
    IF S = {} THEN 0
    ELSE LET j == CHOOSE j \in S : TRUE
         IN  RunBefore(cigar, j) + SumRunsBefore(cigar, S \ {j})

\* C23: get_alignment_length is 0 for "*" and otherwise the sum of the digit
\* runs immediately followed by M, I or D; every other operation and every
\* operation letter without a number counts 0 (10M -> 10, 5M2I3D -> 10,
\* 5M3S2I4D -> 11, MID -> 0, empty -> 0).
C23_AlignmentLength ==
    (fnPc = "returned" /\ fnName = "get_alignment_length")
        => /\ fnArgs[1] = <<"*">> => fnResult = 0
           /\ fnArgs[1] # <<"*">>
                => fnResult = SumRunsBefore(fnArgs[1], OperationPositions(fnArgs[1]))
           /\ fnArgs[1] = <<"1", "0", "M">> => fnResult = 10
           /\ fnArgs[1] = <<"5", "M", "2", "I", "3", "D">> => fnResult = 10
           /\ fnArgs[1] = <<"5", "M", "3", "S", "2", "I", "4", "D">> => fnResult = 11
           /\ fnArgs[1] \in {<<"M", "I", "D">>, <<>>} => fnResult = 0

\* 5M3S2I4D counts 5 + 2 + 4 and leaves the soft clip out
C23_Witness ==
    /\ fnPc = "returned"
    /\ fnName = "get_alignment_length"
    /\ fnArgs[1] = <<"5", "M", "3", "S", "2", "I", "4", "D">>
    /\ fnResult = 11

\* largest penalty value passed to set_penalties
MaxPenalty == 1

\* str(n) of an integer
StrInt(n) == IF n < 0 THEN <<"-">> \o Str(-n) ELSE Str(n)

\* set_penalties of q2_pinocchio; a parameter is None or <<n>>, and the two
\* gap penalties are tested by truth value
set_penalties(matching_score, mismatching_penalty, gap_open_penalty, gap_extension_penalty) ==
    (IF matching_score # None
     THEN << <<"-", "A">>, StrInt(matching_score[1]) >> ELSE <<>>)
    \o (IF mismatching_penalty # None
        THEN << <<"-", "B">>, StrInt(mismatching_penalty[1]) >> ELSE <<>>)
    \o (IF Truthy(gap_open_penalty)
        THEN << <<"-", "O">>, StrInt(gap_open_penalty[1]) >> ELSE <<>>)
    \o (IF Truthy(gap_extension_penalty)
        THEN << <<"-", "E">>, StrInt(gap_extension_penalty[1]) >> ELSE <<>>)

\* set_penalties of q2_minimap2: all four parameters are tested against None
set_penalties_minimap2(match, mismatch, gap_o, gap_e) ==
    (IF match # None THEN << <<"-", "A">>, StrInt(match[1]) >> ELSE <<>>)
    \o (IF mismatch # None THEN << <<"-", "B">>, StrInt(mismatch[1]) >> ELSE <<>>)
    \o (IF gap_o # None THEN << <<"-", "O">>, StrInt(gap_o[1]) >> ELSE <<>>)
    \o (IF gap_e # None THEN << <<"-", "E">>, StrInt(gap_e[1]) >> ELSE <<>>)

\* a call set_penalties(...) of q2_pinocchio
CallSetPenalties ==
    /\ fnPc = "call"
    /\ fnName = "set_penalties"
    /\ fnResult' = set_penalties(fnArgs[1], fnArgs[2], fnArgs[3], fnArgs[4])
    /\ fnPc' = "returned"
    /\ UNCHANGED <<fnName, fnArgs>>
    /\ UNCHANGED <<samVars, pafVars, pipeVars>>

\* a call set_penalties(...) of q2_minimap2
CallSetPenaltiesMinimap2 ==
    /\ fnPc = "call"
    /\ fnName = "q2_minimap2.set_penalties"
    /\ fnResult' = set_penalties_minimap2(fnArgs[1], fnArgs[2], fnArgs[3], fnArgs[4])
    /\ fnPc' = "returned"
    /\ UNCHANGED <<fnName, fnArgs>>
    /\ UNCHANGED <<samVars, pafVars, pipeVars>>

\* the values of a penalty parameter: None or an integer
PenaltyValues == {None} \cup {<<n>> : n \in -1..MaxPenalty}
\* the arguments of a call of set_penalties
SetPenaltiesArgs ==
    {<<a, b, o, e>> : a \in PenaltyValues, b \in PenaltyValues,
                      o \in PenaltyValues, e \in PenaltyValues}

\* the flag and the value of one supplied parameter, nothing for None
SuppliedOption(flag, value) ==
    IF value = None THEN <<>> ELSE <<flag, StrInt(value[1])>>

\* C26 (as claimed): set_penalties returns, in the order -A, -B, -O, -E,
\* exactly the flags whose parameter was supplied, each followed by the string
\* of the value; None contributes nothing and every supplied integer, 0
\* included, is passed through.
C26_PenaltiesPassedThrough ==
    (fnPc = "returned" /\ fnName \in {"set_penalties", "q2_minimap2.set_penalties"})
        => fnResult = SuppliedOption(<<"-", "A">>, fnArgs[1])
                      \o SuppliedOption(<<"-", "B">>, fnArgs[2])
                      \o SuppliedOption(<<"-", "O">>, fnArgs[3])
                      \o SuppliedOption(<<"-", "E">>, fnArgs[4])

\* process_sam_file(input_sam_file, "unmapped", min_per_identity) on a copy of
\* the input of the finished call with keep "mapped"; the output of the first
\* call is kept in fnResult
ProcessSamFileOtherPolicy ==
    /\ fnPc = "first"
    /\ samPc = "done"
    /\ fnResult' = samFile
    /\ fnPc' = "second"
    /\ samFile' = samInput
    /\ tmpFile' = <<>>
    /\ samPos' = 0
    /\ samPc' = "loop"
    /\ keep' = "unmapped"
    /\ UNCHANGED <<samInput, minPerIdentity, userKeep, entry, samRuns>>
    /\ UNCHANGED <<fnName, fnArgs>>
    /\ UNCHANGED <<pafVars, pipeVars>>

\* the calls of single functions
FunctionCalls ==
    {<<"calculate_identity", a>> : a \in CalculateIdentityArgs}
    \cup {<<"get_alignment_length", a>> : a \in GetAlignmentLengthArgs}
    \cup {<<"set_penalties", a>> : a \in SetPenaltiesArgs}
    \cup {<<"q2_minimap2.set_penalties", a>> : a \in SetPenaltiesArgs}

InitFunctions ==
    /\ \E call \in FunctionCalls : fnName = call[1] /\ fnArgs = call[2]
    /\ fnPc = "call"
    /\ fnResult = <<>>
    /\ SamIdle
    /\ PafIdle
    /\ PipeNotCalled

NextFunctions ==
    \/ CallCalculateIdentity
    \/ CallGetAlignmentLength
    \/ CallSetPenalties
    \/ CallSetPenaltiesMinimap2

SpecFunctions == InitFunctions /\ [][NextFunctions]_vars

\* process_sam_file called on the same input with keep "mapped" and then with
\* keep "unmapped"
InitKeepPolicies ==
    /\ samFile \in SeqsUpTo(SamLines, MaxSamLines)
    /\ samInput = samFile
    /\ tmpFile = <<>>
    /\ samPos = 0
    /\ samPc = "loop"
    /\ keep = "mapped"
    /\ minPerIdentity \in Floors
    /\ userKeep = keep
    /\ entry = "process_sam_file"
    /\ samRuns = 1
    /\ fnPc = "first"
    /\ fnName = "process_sam_file"
    /\ fnArgs = <<>>
    /\ fnResult = <<>>
    /\ PafIdle
    /\ PipeNotCalled

NextKeepPolicies == ProcessSamLine \/ ReplaceSamFile \/ ProcessSamFileOtherPolicy

SpecKeepPolicies == InitKeepPolicies /\ [][NextKeepPolicies]_vars

\* a secondary alignment of a mapped read: 0x100 set, 0x4 clear
SecondaryMapped(l) == BitSet(FlagOf(l), 256) /\ ~BitSet(FlagOf(l), 4)
\* the identity of record l is defined and below the floor F; never without
\* a floor
BelowFloor(l, F) ==
    /\ F # None
    /\ SpecIdentity(l) \notin {ValueError, ZeroDivisionError}
    /\ FracLt(SpecIdentity(l), F)

\* C29 (as claimed): for the same input and the same floor, every record is
\* retained by at most one of the policies "mapped" and "unmapped", and the
\* only records retained by neither are secondary records (0x100 set, 0x4
\* clear) whose identity is not below the floor.
C29_PoliciesPartition ==
    (fnPc = "second" /\ samPc = "done")
        => \A i \in DOMAIN samInput :
             ~IsHeader(samInput[i])
                => /\ ~(InFile(samInput[i], fnResult) /\ InFile(samInput[i], samFile))
                   /\ (~InFile(samInput[i], fnResult) /\ ~InFile(samInput[i], samFile))
                        => /\ SecondaryMapped(samInput[i])
                           /\ ~BelowFloor(samInput[i], minPerIdentity)

-----------------------------------------------------------------------------
(* Further properties of process_paired_sam_flags                          *)

MaxFlag == 255

\* a call process_paired_sam_flags(input_sam_path) on one pair of records
\* with any two flags
InitFlagPairs ==
    /\ \E a \in 0..MaxFlag, b \in 0..MaxFlag :
         samFile = <<SamRecord("r1", Str(a), <<"*">>, <<>>),
                     SamRecord("r1", Str(b), <<"*">>, <<>>)>>
    /\ samInput = samFile
    /\ tmpFile = <<>>
    /\ samPos = 0
    /\ samPc = "loop"
    /\ keep = "mapped"
    /\ minPerIdentity = None
    /\ userKeep = "mapped"
    /\ entry = "process_paired_sam_flags"
    /\ samRuns = 1
    /\ PafIdle
    /\ PipeIdle

SpecFlagPairs == InitFlagPairs /\ [][NextPairedFlags]_vars

\* the reference operator: the bits of x together with the bits in masks
RECURSIVE SumBits(_, _, _)
SumBits(x, masks, S) ==
    IF S = {} THEN 0
    ELSE LET k == CHOOSE k \in S : TRUE
         IN  (IF BitSet(x, k) \/ k \in masks THEN k ELSE 0)
             + SumBits(x, masks, S \ {k})
OrBits(x, masks) == SumBits(x, masks, FlagMasks)

\* C28: for every pair of input flags (a, b), the pair of unmapped reads
\* (4, 4) included, the output flags of process_paired_sam_flags are
\* a | 1 | 64 and b | 1 | 128.
C28_SpecialCaseIsGeneralRule ==
    (entry = "process_paired_sam_flags" /\ samPc = "done")
        => /\ Len(samFile) = 2
           /\ samFile[1][2] = Str(OrBits(ParseInt(samInput[1][2]), {1, 64}))
           /\ samFile[2][2] = Str(OrBits(ParseInt(samInput[2][2]), {1, 128}))

\* the pair (4, 4) was rewritten to (69, 133)
C28_Witness ==
    /\ entry = "process_paired_sam_flags"
    /\ samPc = "done"
    /\ samInput[1][2] = <<"4">>
    /\ samInput[2][2] = <<"4">>
    /\ samFile[1][2] = <<"6", "9">>
    /\ samFile[2][2] = <<"1", "3", "3">>

-----------------------------------------------------------------------------
(* trim and process_and_rezip (trim_long_reads)                            *)

\* run_commands_with_pipe(cmd1, cmd2, cmd3, outfile_path) raises
\* CalledProcessError: never, the codes returned by p1.wait(), p2.wait() and
\* p3.wait() are discarded
PipeRaises(rc1, rc2, rc3) == FALSE

\* trim up to the first iteration of its loop over the manifest
Trim ==
    /\ entry = "trim"
    /\ pipePc = "called"
    /\ IF manifest = <<>>
       THEN pipePc' = "returned" /\ sampleNo' = sampleNo
       ELSE pipePc' = "fwd" /\ sampleNo' = 1
    /\ UNCHANGED <<indexDatabase, referenceReads, manifest, cmds, raised>>
    /\ UNCHANGED <<samVars, pafVars, fnVars>>

\* process_and_rezip on the forward or the reverse file of the sample: the
\* pipe gunzip | chopper | gzip, then the next file, the next sample or the
\* return of trim
ProcessAndRezip ==
    /\ entry = "trim"
    /\ pipePc \in {"fwd", "rev"}
    /\ \E rc1 \in ReturnCodes, rc2 \in ReturnCodes, rc3 \in ReturnCodes :
         /\ cmds' = cmds \o << <<"gunzip", rc1>>, <<"chopper", rc2>>, <<"gzip", rc3>> >>
         /\ IF PipeRaises(rc1, rc2, rc3)
            THEN /\ pipePc' = "Exception"
                 /\ raised' = <<"chopper", rc2>>
                 /\ sampleNo' = sampleNo
            ELSE /\ raised' = raised
                 /\ IF pipePc = "fwd" /\ manifest[sampleNo]
                    THEN pipePc' = "rev" /\ sampleNo' = sampleNo
                    ELSE IF sampleNo < Len(manifest)
                    THEN pipePc' = "fwd" /\ sampleNo' = sampleNo + 1
                    ELSE pipePc' = "returned" /\ sampleNo' = sampleNo
    /\ UNCHANGED <<indexDatabase, referenceReads, manifest>>
    /\ UNCHANGED <<samVars, pafVars, fnVars>>

\* a call trim(query, ...); manifest[i] is TRUE for a sample with a reverse file
InitTrim ==
    /\ entry = "trim"
    /\ pipePc = "called"
    /\ indexDatabase = FALSE
    /\ referenceReads = FALSE
    /\ manifest \in SeqsUpTo(BOOLEAN, MaxSamples)
    /\ sampleNo = 0
    /\ cmds = <<>>
    /\ raised = <<>>
    /\ samFile = <<>>
    /\ samInput = <<>>
    /\ tmpFile = <<>>
    /\ samPos = 0
    /\ samPc = "idle"
    /\ keep = "mapped"
    /\ minPerIdentity = None
    /\ userKeep = "mapped"
    /\ samRuns = 0
    /\ PafIdle
    /\ FnIdle

NextTrim == Trim \/ ProcessAndRezip

SpecTrim == InitTrim /\ [][NextTrim]_vars

\* C25 (as claimed): when a stage of the pipe gunzip | chopper | gzip of
\* process_and_rezip exits with a non-zero code, an exception reporting an
\* error while using chopper is raised and trim does not return a result.
C25_PipeFailureIsFatal ==
    (entry = "trim" /\ \E i \in DOMAIN cmds : cmds[i][2] # 0)
        => /\ pipePc = "Exception"
           /\ raised # <<>>
           /\ raised[1] = "chopper"

-----------------------------------------------------------------------------
(* process_paired_unmapped_flags and add_mapped_paired_read_flags          *)
(* (q2_minimap2)                                                           *)

\* the loop of process_paired_unmapped_flags from line i of the file on, with
\* the reads buffered and the lines written so far: the status and the lines
\* written; reads left in the buffer at the end of the file are not written
RECURSIVE UnmappedFlagsLoop(_, _, _, _)
UnmappedFlagsLoop(f, i, read_pair_buffer, out) ==
    IF i > Len(f) THEN <<"done", out>>
    ELSE IF IsHeader(f[i]) THEN UnmappedFlagsLoop(f, i + 1, read_pair_buffer, Append(out, f[i]))
    ELSE IF ~IsIntLiteral(f[i][2]) THEN <<"ValueError", out>>
    ELSE IF ParseInt(f[i][2]) = 4
    THEN IF Len(read_pair_buffer) = 1
         THEN UnmappedFlagsLoop(f, i + 1, <<>>,
                  out \o <<[read_pair_buffer[1] EXCEPT ![2] = <<"6", "9">>],
                           [f[i] EXCEPT ![2] = <<"1", "3", "3">>]>>)
         ELSE UnmappedFlagsLoop(f, i + 1, Append(read_pair_buffer, f[i]), out)
    ELSE UnmappedFlagsLoop(f, i + 1, <<>>, (out \o read_pair_buffer) \o <<f[i]>>)

\* the loop of add_mapped_paired_read_flags from line i of the file on: the
\* status and the lines written
RECURSIVE MappedFlagsLoop(_, _, _, _)
MappedFlagsLoop(f, i, read_number, out) ==
    IF i > Len(f) THEN <<"done", out>>
    ELSE IF IsHeader(f[i]) THEN MappedFlagsLoop(f, i + 1, read_number, Append(out, f[i]))
    ELSE IF ~IsIntLiteral(f[i][2]) THEN <<"ValueError", out>>
    ELSE IF ParseInt(f[i][2]) = 4 THEN MappedFlagsLoop(f, i + 1, read_number, out)
    ELSE IF read_number = 1
    THEN MappedFlagsLoop(f, i + 1, 2,
             Append(out, [f[i] EXCEPT ![2] = Str(BitOr(ParseInt(f[i][2]), 64))]))
    ELSE MappedFlagsLoop(f, i + 1, 1,
             Append(out, [f[i] EXCEPT ![2] = Str(BitOr(ParseInt(f[i][2]), 128))]))

\* process_paired_unmapped_flags(samf_fp): the loop and the move of the
\* temporary file over the input
ProcessPairedUnmappedFlags ==
    /\ entry = "paired_flag_fixup"
    /\ samPc = "process_paired_unmapped_flags"
    /\ LET result == UnmappedFlagsLoop(samFile, 1, <<>>, <<>>)
       IN  IF result[1] = "done"
           THEN samFile' = result[2] /\ samPc' = "add_mapped_paired_read_flags"
           ELSE samFile' = samFile /\ samPc' = result[1]
    /\ UNCHANGED <<samInput, tmpFile, samPos, keep, minPerIdentity, userKeep, entry, samRuns>>
    /\ UNCHANGED <<pafVars, pipeVars, fnVars>>

\* add_mapped_paired_read_flags(samf_fp): the loop and the move of the
\* temporary file over the input
AddMappedPairedReadFlags ==
    /\ entry = "paired_flag_fixup"
    /\ samPc = "add_mapped_paired_read_flags"
    /\ LET result == MappedFlagsLoop(samFile, 1, 1, <<>>)
       IN  IF result[1] = "done"
           THEN samFile' = result[2] /\ samPc' = "done"
           ELSE samFile' = samFile /\ samPc' = result[1]
    /\ UNCHANGED <<samInput, tmpFile, samPos, keep, minPerIdentity, userKeep, entry, samRuns>>
    /\ UNCHANGED <<pafVars, pipeVars, fnVars>>

\* the two calls of filter_paired_end_reads.py lines 62-63 on a SAM file
InitFlagFixup ==
    /\ samFile \in SeqsUpTo(PairedSamLines, MaxPairedLines)
    /\ samInput = samFile
    /\ tmpFile = <<>>
    /\ samPos = 0
    /\ samPc = "process_paired_unmapped_flags"
    /\ keep = "mapped"
    /\ minPerIdentity = None
    /\ userKeep = "mapped"
    /\ entry = "paired_flag_fixup"
    /\ samRuns = 1
    /\ PafIdle
    /\ PipeIdle

NextFlagFixup == ProcessPairedUnmappedFlags \/ AddMappedPairedReadFlags

SpecFlagFixup == InitFlagFixup /\ [][NextFlagFixup]_vars

\* C30 (as claimed): after process_paired_unmapped_flags and
\* add_mapped_paired_read_flags on an input whose records carry neither 0x40
\* nor 0x80, no output record has both bits set, and the output records
\* alternate first-in-pair (0x40), second-in-pair (0x80) in output order.
C30_FixupFlagsAlternate ==
    (entry = "paired_flag_fixup" /\ samPc = "done"
       /\ \A i \in DOMAIN samInput :
            ~IsHeader(samInput[i])
                => /\ ~BitSet(FlagOf(samInput[i]), 64)
                   /\ ~BitSet(FlagOf(samInput[i]), 128))
        => LET out == Records(samFile)
           IN  \A k \in DOMAIN out :
                 /\ ~(BitSet(FlagOf(out[k]), 64) /\ BitSet(FlagOf(out[k]), 128))
                 /\ BitSet(FlagOf(out[k]), IF k % 2 = 1 THEN 64 ELSE 128)

====
